---------------------------- MODULE Spec2Model ----------------------------
(***************************************************************************)
(* AskURL: URL ingestion (DocumentProcessor), retrieval-augmented question *)
(* answering (QAChain) and the Streamlit session that drives them.         *)
(***************************************************************************)
EXTENDS Integers, Sequences, FiniteSets, TLC

VARIABLES
    chunk_size,      \* DocumentProcessor.text_splitter chunk_size
    chunk_overlap,   \* DocumentProcessor.text_splitter chunk_overlap
    documents,       \* the documents last handed to split_documents
    chunks,          \* the chunks split_documents returned for them
    cuts,            \* where in its document each of those chunks lies
    pc,              \* position of the splitter's caller
    fs,              \* the filesystem: what is stored at each path
    vectorstore,     \* st.session_state.vectorstore
    qa_chain,        \* st.session_state.qa_chain
    urls_processed,  \* st.session_state.urls_processed
    chat_history,    \* st.session_state.chat_history
    answered_on,     \* per message of chat_history, the index it was produced on
    ret              \* what the last operation was given and what it returned

cfgvars == <<chunk_size, chunk_overlap>>
splitvars == <<documents, chunks, cuts, pc>>
sessionvars == <<vectorstore, qa_chain, urls_processed, chat_history, answered_on>>
vars == <<chunk_size, chunk_overlap, documents, chunks, cuts, pc, fs,
          vectorstore, qa_chain, urls_processed, chat_history, answered_on, ret>>


(***************************************************************************)
(* Bounds of the model.                                                    *)
(***************************************************************************)
MaxLen == 5          \* characters of page text in one batch of documents
MaxS == 3            \* largest chunk size the splitter is configured with
MaxChunks == 3       \* chunks of an index that questions are asked against
MaxTurns == 2        \* questions asked in a session since its index was installed

(***************************************************************************)
(* config.py                                                               *)
(***************************************************************************)
CHUNK_SIZE == 1000
CHUNK_OVERLAP == 200
RETRIEVAL_K == 3

(***************************************************************************)
(* Text.  A text is a sequence of characters; a piece of a text is the     *)
(* pair <<lo, hi>> of its first and last position (keep_separator is on    *)
(* and pieces are joined with "", so every piece and every chunk is a      *)
(* contiguous slice of the page text).                                     *)
(***************************************************************************)
Alphabet == {"a", " ", "\n"}
Whitespace == {" ", "\n"}

RECURSIVE SeqsUpTo(_, _)
SeqsUpTo(S, n) ==
    IF n = 0 THEN {<<>>}
    ELSE LET shorter == SeqsUpTo(S, n - 1)
         IN shorter \cup {Append(s, x) : s \in {t \in shorter : Len(t) = n - 1}, x \in S}

PieceLen(p) == p[2] - p[1] + 1

\* RecursiveCharacterTextSplitter._separators: "\n\n", "\n", " ", ""
Separators == << <<"\n", "\n">>, <<"\n">>, <<" ">>, <<>> >>

MatchesAt(text, pos, sep) ==
    /\ pos + Len(sep) - 1 <= Len(text)
    /\ \A j \in 1..Len(sep) : text[pos + j - 1] = sep[j]

\* re.split: the starts of the leftmost non-overlapping occurrences of sep
\* in text[pos..hi]
RECURSIVE MatchStarts(_, _, _, _)
MatchStarts(text, pos, hi, sep) ==
    IF pos + Len(sep) - 1 > hi THEN <<>>
    ELSE IF MatchesAt(text, pos, sep)
         THEN <<pos>> \o MatchStarts(text, pos + Len(sep), hi, sep)
         ELSE MatchStarts(text, pos + 1, hi, sep)

\* _split_text_with_regex with keep_separator = True: every separator opens
\* the piece that follows it; empty pieces are dropped
SplitTextWithRegex(text, lo, hi, sep) ==
    IF sep = <<>>
    THEN [i \in 1..(hi - lo + 1) |-> <<lo + i - 1, lo + i - 1>>]
    ELSE LET starts == MatchStarts(text, lo, hi, sep)
             n == Len(starts)
             head == IF n = 0 THEN << <<lo, hi>> >>
                     ELSE IF starts[1] > lo THEN << <<lo, starts[1] - 1>> >> ELSE <<>>
             tail == [i \in 1..n |-> <<starts[i], IF i < n THEN starts[i + 1] - 1 ELSE hi>>]
         IN head \o tail

\* str.strip() of text[lo..hi], as a piece (lo > hi when nothing is left)
RECURSIVE StripLeft(_, _, _)
StripLeft(text, lo, hi) ==
    IF lo <= hi /\ text[lo] \in Whitespace THEN StripLeft(text, lo + 1, hi) ELSE lo

RECURSIVE StripRight(_, _, _)
StripRight(text, lo, hi) ==
    IF lo <= hi /\ text[hi] \in Whitespace THEN StripRight(text, lo, hi - 1) ELSE hi

\* TextSplitter._join_docs: the joined pieces, stripped; nothing when empty
JoinDocs(text, cur) ==
    IF cur = <<>> THEN <<>>
    ELSE LET lo == StripLeft(text, cur[1][1], cur[Len(cur)][2])
             hi == StripRight(text, lo, cur[Len(cur)][2])
         IN IF lo > hi THEN <<>> ELSE << <<lo, hi>> >>

\* a variant of PopLoop that keeps one character more than the overlap; C8
\* must tell it from PopLoop
RECURSIVE PopLoopKeepsMore(_, _, _, _, _)
PopLoopKeepsMore(cur, total, len, S, O) ==
    IF total > O + 1 \/ (total + len > S /\ total > 0)
    THEN PopLoopKeepsMore(Tail(cur), total - PieceLen(cur[1]), len, S, O)
    ELSE [cur |-> cur, total |-> total]

\* the popping loop of _merge_splits: drop leading pieces while more than the
\* overlap is kept, or while the next piece still does not fit
RECURSIVE PopLoop(_, _, _, _, _)
PopLoop(cur, total, len, S, O) ==
    IF total > O \/ (total + len > S /\ total > 0)
    THEN PopLoop(Tail(cur), total - PieceLen(cur[1]), len, S, O)
    ELSE [cur |-> cur, total |-> total]

\* TextSplitter._merge_splits (separator "", so separator_len = 0)
RECURSIVE MergeLoop(_, _, _, _, _, _, _, _)
MergeLoop(text, splits, i, cur, total, docs, S, O) ==
    IF i > Len(splits) THEN docs \o JoinDocs(text, cur)
    ELSE LET d == splits[i]
             len == PieceLen(d)
         IN IF total + len > S /\ Len(cur) > 0
            THEN LET kept == PopLoop(cur, total, len, S, O)
                 IN MergeLoop(text, splits, i + 1, Append(kept.cur, d),
                              kept.total + len, docs \o JoinDocs(text, cur), S, O)
            ELSE MergeLoop(text, splits, i + 1, Append(cur, d), total + len, docs, S, O)

MergeSplits(text, splits, S, O) == MergeLoop(text, splits, 1, <<>>, 0, <<>>, S, O)

\* the separator _split_text picks: the first that is "" or occurs in the text
RECURSIVE PickSeparator(_, _, _, _)
PickSeparator(text, lo, hi, k) ==
    IF Separators[k] = <<>> \/ MatchStarts(text, lo, hi, Separators[k]) # <<>>
    THEN k
    ELSE PickSeparator(text, lo, hi, k + 1)

\* RecursiveCharacterTextSplitter._split_text on text[lo..hi] with the
\* separators from position k on
RECURSIVE SplitText(_, _, _, _, _, _)
RECURSIVE SplitLoop(_, _, _, _, _, _, _, _)
SplitLoop(text, splits, i, good, final, sepk, S, O) ==
    IF i > Len(splits)
    THEN IF good # <<>> THEN final \o MergeSplits(text, good, S, O) ELSE final
    ELSE LET s == splits[i]
         IN IF PieceLen(s) < S
            THEN SplitLoop(text, splits, i + 1, Append(good, s), final, sepk, S, O)
            ELSE LET flushed == IF good # <<>>
                                THEN final \o MergeSplits(text, good, S, O)
                                ELSE final
                     \* new_separators is empty exactly when "" was picked
                     pieces == IF Separators[sepk] = <<>>
                               THEN << s >>
                               ELSE SplitText(text, s[1], s[2], sepk + 1, S, O)
                 IN SplitLoop(text, splits, i + 1, <<>>, flushed \o pieces, sepk, S, O)

SplitText(text, lo, hi, k, S, O) ==
    LET sepk == PickSeparator(text, lo, hi, k)
        splits == SplitTextWithRegex(text, lo, hi, Separators[sepk])
    IN SplitLoop(text, splits, 1, <<>>, <<>>, sepk, S, O)

\* split_text of a whole page: the chunks as pieces of the page, in order
ChunkPieces(text, S, O) == SplitText(text, 1, Len(text), 1, S, O)

\* TextSplitter.split_documents / create_documents: one chunk Document per
\* piece, carrying a copy of its document's metadata
\* the pieces ps of document i, each with the document it lies in
CutsOf(i, ps) == [j \in 1..Len(ps) |-> [doc |-> i, lo |-> ps[j][1], hi |-> ps[j][2]]]

RECURSIVE CutsFrom(_, _, _, _)
CutsFrom(docs, i, S, O) ==
    IF i > Len(docs) THEN <<>>
    ELSE CutsOf(i, ChunkPieces(docs[i].page_content, S, O)) \o CutsFrom(docs, i + 1, S, O)

DocumentCuts(docs, S, O) == CutsFrom(docs, 1, S, O)

\* create_documents: the chunk Documents for the cuts cs of docs
ChunkDocuments(docs, cs) ==
    [j \in 1..Len(cs) |->
        [page_content |-> SubSeq(docs[cs[j].doc].page_content, cs[j].lo, cs[j].hi),
         metadata |-> docs[cs[j].doc].metadata]]

split_documents(docs, S, O) == ChunkDocuments(docs, DocumentCuts(docs, S, O))


(***************************************************************************)
(* The world outside the program: pages on the web and the filesystem.     *)
(***************************************************************************)
URLS == {<<"u1">>, <<"u2">>}

\* the main text UnstructuredURLLoader extracts from each page
Page(u) == IF u = <<"u1">> THEN <<"a", " ", "a">> ELSE <<"a">>

\* config.FAISS_INDEX_PATH, "faiss_store_openai.pkl", as name and extension
FAISS_INDEX_PATH == <<"faiss_store_openai", ".pkl">>

\* str.replace(old, ""): every occurrence of old is removed
Replace(path, old) == SelectSeq(path, LAMBDA part : part # old)

\* FAISS_INDEX_PATH.replace('.pkl', '')
IndexFolder == Replace(FAISS_INDEX_PATH, ".pkl")

\* file_path = None
NonePath == <<>>

Paths == {IndexFolder, FAISS_INDEX_PATH}

Absent == [kind |-> "absent"]
RegularFile == [kind |-> "file"]
Missing == [state |-> "missing"]
Corrupt == [state |-> "corrupt"]
Stored(data) == [state |-> "ok", data |-> data]
Dir(faiss, pkl) == [kind |-> "dir", faiss |-> faiss, pkl |-> pkl]

\* a langchain Document
Document(text, src) == [page_content |-> text, metadata |-> [source |-> src]]

NoIndex == [kind |-> "none"]
Index(vec, docs) == [kind |-> "index", vec |-> vec, docs |-> docs]

(***************************************************************************)
(* DocumentProcessor                                                       *)
(***************************************************************************)

\* load_urls: UnstructuredURLLoader(urls).load().  The loader returns one
\* Document per URL it could fetch, with metadata {"source": url}.
load_urls(urls, reachable) ==
    LET got == SelectSeq(urls, LAMBDA u : u \in reachable)
    IN [i \in 1..Len(got) |-> Document(Page(got[i]), got[i])]

\* the embedding provider's vector for a text
Embed(text) == [embedding_of |-> text]

\* create_vectorstore: FAISS.from_documents(documents, embeddings).  It
\* raises when the embedding provider fails and when there is nothing to
\* index.
create_vectorstore(docs, provider_ok) ==
    IF ~provider_ok \/ docs = <<>>
    THEN [raised |-> TRUE, value |-> NoIndex]
    ELSE [raised |-> FALSE,
          value |-> Index([i \in 1..Len(docs) |-> Embed(docs[i].page_content)], docs)]

\* FAISS.save_local(folder): make the folder, write index.faiss, then write
\* index.pkl.  fail names the step at which the filesystem refuses, if any.
save_local(files, store, folder, fail) ==
    LET entry == files[folder]
        dir0 == IF entry.kind = "dir" THEN entry ELSE Dir(Missing, Missing)
        put(d) == [files EXCEPT ![folder] = d]
    IN IF entry.kind = "file" \/ fail = "mkdir"
       THEN [raised |-> TRUE, fs |-> files]
       ELSE IF fail = "faiss"
       THEN [raised |-> TRUE, fs |-> put(dir0)]
       ELSE IF fail = "pkl"
       THEN [raised |-> TRUE, fs |-> put(Dir(Stored(store.vec), dir0.pkl))]
       ELSE [raised |-> FALSE, fs |-> put(Dir(Stored(store.vec), Stored(store.docs)))]

SaveFailures == {"none", "mkdir", "faiss", "pkl"}

\* a variant of save_vectorstore that keeps the ".pkl" of the default path;
\* C6 must tell it from save_vectorstore
save_vectorstore_unstripped(files, store, file_path, fail) ==
    LET folder == IF file_path = NonePath THEN FAISS_INDEX_PATH ELSE file_path
    IN save_local(files, store, folder, fail)

\* save_vectorstore
save_vectorstore(files, store, file_path, fail) ==
    LET folder == IF file_path = NonePath THEN IndexFolder ELSE file_path
    IN save_local(files, store, folder, fail)

\* index_exists: os.path.exists(file_path) and os.path.isdir(file_path)
index_exists(files, file_path) ==
    LET folder == IF file_path = NonePath THEN IndexFolder ELSE file_path
    IN files[folder].kind # "absent" /\ files[folder].kind = "dir"

\* FAISS.load_local(folder, embeddings): read index.faiss, then index.pkl;
\* a file that is missing or unreadable raises
load_local(files, folder) ==
    LET entry == files[folder]
    IN IF entry.kind = "dir" /\ entry.faiss.state = "ok" /\ entry.pkl.state = "ok"
       THEN [raised |-> FALSE, value |-> Index(entry.faiss.data, entry.pkl.data)]
       ELSE [raised |-> TRUE, value |-> NoIndex]

\* load_vectorstore.  embeddings: whether _initialize_embeddings ran;
\* loader: whether FAISS.load_local was called
load_vectorstore(files, file_path) ==
    LET folder == IF file_path = NonePath THEN IndexFolder ELSE file_path
    IN IF index_exists(files, folder)
       THEN LET got == load_local(files, folder)
            IN [raised |-> got.raised, value |-> got.value,
                embeddings |-> TRUE, loader |-> TRUE]
       ELSE [raised |-> FALSE, value |-> NoIndex, embeddings |-> FALSE, loader |-> FALSE]

\* What the outside world does to one ingestion request: whether the URL
\* loader raises, which URLs it can fetch, whether the embedding provider
\* answers, and where (if anywhere) the filesystem refuses the save.
World(load_raises, reachable, embed_ok, save_fail) ==
    [load_raises |-> load_raises, reachable |-> reachable, embed_ok |-> embed_ok,
     save_fail |-> save_fail]

Range(seq) == {seq[i] : i \in 1..Len(seq)}

\* the worlds that differ for a request about urls
Worlds(urls) ==
    {World(TRUE, {}, FALSE, "none")}
    \cup {World(FALSE, r, FALSE, "none") : r \in SUBSET Range(urls)}
    \cup {World(FALSE, r, TRUE, f) : r \in SUBSET Range(urls) \ {{}}, f \in SaveFailures}

\* The ingestion pipeline of process_urls and of the Process URLs handler:
\* load_urls, split_documents, create_vectorstore, save_vectorstore, each
\* run only if the one before it returned.  steps lists the steps that
\* were started.
PipelineResult(raised, steps, value, files, num_documents, num_chunks) ==
    [raised |-> raised, steps |-> steps, value |-> value, fs |-> files,
     num_documents |-> num_documents, num_chunks |-> num_chunks]

AfterSave(store, saved, num_documents, num_chunks) ==
    PipelineResult(saved.raised,
                   <<"load_urls", "split_documents", "create_vectorstore", "save_vectorstore">>,
                   IF saved.raised THEN NoIndex ELSE store,
                   saved.fs, num_documents, num_chunks)

AfterCreate(files, made, save_index, fail, num_documents, num_chunks) ==
    IF made.raised \/ ~save_index
    THEN PipelineResult(made.raised,
                        <<"load_urls", "split_documents", "create_vectorstore">>,
                        made.value, files, num_documents, num_chunks)
    ELSE AfterSave(made.value, save_vectorstore(files, made.value, NonePath, fail),
                   num_documents, num_chunks)

AfterSplit(files, cs, save_index, w, num_documents) ==
    AfterCreate(files, create_vectorstore(cs, w.embed_ok), save_index, w.save_fail,
                num_documents, Len(cs))

AfterLoad(files, docs, save_index, w, S, O) ==
    AfterSplit(files, split_documents(docs, S, O), save_index, w, Len(docs))

Pipeline(files, urls, save_index, w, S, O) ==
    IF w.load_raises
    THEN PipelineResult(TRUE, <<"load_urls">>, NoIndex, files, 0, 0)
    ELSE AfterLoad(files, load_urls(urls, w.reachable), save_index, w, S, O)

\* process_urls
process_urls(files, urls, save_index, w, S, O) ==
    Pipeline(files, urls, save_index, w, S, O)

(***************************************************************************)
(* QAChain                                                                 *)
(***************************************************************************)
NoChain == [kind |-> "none"]

\* QAChain.__init__: the chain keeps the vectorstore and a retriever over
\* it with search_kwargs k = RETRIEVAL_K
QAChain(store) == [kind |-> "chain", vectorstore |-> store, k |-> RETRIEVAL_K]

Min(a, b) == IF a < b THEN a ELSE b

\* retriever.invoke(question): either the call raises (the embedding
\* provider fails), or it returns the k nearest chunks, nearest first.
\* Which chunks are nearest is decided by the provider's embedding of the
\* question, so each invocation may rank the chunks its own way.
RetrieverInvoke(chain) ==
    LET docs == chain.vectorstore.docs
        n == Min(Len(chain.vectorstore.vec), Len(docs))
        m == Min(chain.k, n)
        ranks == {r \in [1..m -> 1..n] : \A i, j \in 1..m : i # j => r[i] # r[j]}
    IN {[raised |-> TRUE, docs |-> <<>>]}
       \cup {[raised |-> FALSE, docs |-> [i \in 1..m |-> docs[r[i]]]] : r \in ranks}

\* sep.join(parts)
RECURSIVE Join(_, _)
Join(parts, sep) ==
    IF parts = <<>> THEN <<>>
    ELSE IF Len(parts) = 1 THEN parts[1]
    ELSE parts[1] \o sep \o Join(Tail(parts), sep)

\* _format_docs: "\n\n".join(doc.page_content for doc in docs)
format_docs(docs) == Join([i \in 1..Len(docs) |-> docs[i].page_content], <<"\n", "\n">>)

\* the language model's reply to the prompt built from context and question
LLM(context, question) == [context |-> context, question |-> question]

NoAnswer == [context |-> <<>>, question |-> <<>>]

\* ask: chain.invoke(question) runs the retriever, formats what it returns
\* into the context, fills the prompt and calls the model
ask(chain, question, retrieved, llm_ok) ==
    IF retrieved.raised \/ ~llm_ok
    THEN [raised |-> TRUE, content |-> NoAnswer, retrievals |-> 1,
          context_docs |-> retrieved.docs]
    ELSE [raised |-> FALSE, content |-> LLM(format_docs(retrieved.docs), question),
          retrievals |-> 1, context_docs |-> retrieved.docs]

\* a variant of ExtractSources that never looks at seen_sources; C3 must
\* tell it from ExtractSources
RECURSIVE ExtractSourcesUnseen(_, _, _, _)
ExtractSourcesUnseen(docs, i, sources, seen_sources) ==
    IF i > Len(docs) THEN sources
    ELSE IF "source" \in DOMAIN docs[i].metadata
         THEN ExtractSourcesUnseen(docs, i + 1, Append(sources, docs[i].metadata.source),
                                   seen_sources)
         ELSE ExtractSourcesUnseen(docs, i + 1, sources, seen_sources)

\* the loop of ask_with_sources that collects the distinct sources
RECURSIVE ExtractSources(_, _, _, _)
ExtractSources(docs, i, sources, seen_sources) ==
    IF i > Len(docs) THEN sources
    ELSE IF "source" \in DOMAIN docs[i].metadata
              /\ docs[i].metadata.source \notin seen_sources
         THEN ExtractSources(docs, i + 1, Append(sources, docs[i].metadata.source),
                             seen_sources \cup {docs[i].metadata.source})
         ELSE ExtractSources(docs, i + 1, sources, seen_sources)

NO_SOURCES == <<"No sources available">>

\* a variant of SourcesValue without the sentinel; C4 must tell it from
\* SourcesValue
SourcesValueJoined(sources) == Join(sources, <<"\n">>)

\* "\n".join(sources) if sources else "No sources available"
SourcesValue(sources) == IF sources # <<>> THEN Join(sources, <<"\n">>) ELSE NO_SOURCES

\* ask_with_sources.  first is what its own retriever.invoke does, second
\* what the retriever does inside chain.invoke; retrievals counts the calls
\* of the retriever, docs is the list the sources are taken from and
\* context_docs the list formatted into the prompt.
ask_with_sources(chain, question, first, second, llm_ok) ==
    IF chain.kind = "none"
    THEN [raised |-> TRUE, answer |-> NoAnswer, sources |-> <<>>, retrievals |-> 0,
          docs |-> <<>>, context_docs |-> <<>>]
    ELSE IF first.raised
    THEN [raised |-> TRUE, answer |-> NoAnswer, sources |-> <<>>, retrievals |-> 1,
          docs |-> <<>>, context_docs |-> <<>>]
    ELSE LET got == ask(chain, question, second, llm_ok)
             sources == ExtractSources(first.docs, 1, <<>>, {})
         IN IF got.raised
            THEN [raised |-> TRUE, answer |-> NoAnswer, sources |-> <<>>,
                  retrievals |-> 1 + got.retrievals,
                  docs |-> first.docs, context_docs |-> got.context_docs]
            ELSE [raised |-> FALSE, answer |-> got.content,
                  sources |-> SourcesValue(sources),
                  retrievals |-> 1 + got.retrievals, docs |-> first.docs, context_docs |-> got.context_docs]

(***************************************************************************)
(* States shared by the specifications below.                              *)
(***************************************************************************)
Started == [op |-> "start"]

NoSplitting ==
    /\ documents = <<>>
    /\ chunks = <<>>
    /\ cuts = <<>>
    /\ pc = "idle"

\* st.session_state as the script first sets it
NewSession ==
    /\ vectorstore = NoIndex
    /\ qa_chain = NoChain
    /\ urls_processed = FALSE
    /\ chat_history = <<>>
    /\ answered_on = <<>>

Configured ==
    /\ chunk_size = CHUNK_SIZE
    /\ chunk_overlap = CHUNK_OVERLAP

\* the index an ingestion of urls builds when every page is fetched
IndexOf(urls) ==
    create_vectorstore(split_documents(load_urls(urls, URLS), CHUNK_SIZE, CHUNK_OVERLAP),
                       TRUE).value

\* what may lie at a path before the program runs: nothing, a regular file,
\* an empty folder, half an index, a whole index, an index with an
\* unreadable file
EarlierEntries ==
    LET old == IndexOf(<< <<"u2">> >>)
    IN {Absent, RegularFile, Dir(Missing, Missing),
        Dir(Stored(old.vec), Missing), Dir(Missing, Stored(old.docs)),
        Dir(Stored(old.vec), Stored(old.docs)), Dir(Stored(old.vec), Corrupt)}

(***************************************************************************)
(* SpecSplit: split_documents on batches of one or two documents with      *)
(* distinct source URLs, under every configuration of the splitter.        *)
(***************************************************************************)
Texts == SeqsUpTo(Alphabet, MaxLen)

Batches ==
    {<<Document(t, <<"A">>)>> : t \in Texts}
    \cup {<<Document(t[1], <<"A">>), Document(t[2], <<"B">>)>> :
            t \in {u \in Texts \X Texts : Len(u[1]) + Len(u[2]) <= MaxLen}}

InitSplit ==
    /\ chunk_size \in 1..MaxS
    /\ chunk_overlap \in 0..(chunk_size - 1)
    /\ NoSplitting
    /\ NewSession
    /\ fs = [p \in Paths |-> Absent]
    /\ ret = Started

\* a caller obtains a batch of documents for the processor
TakeDocuments ==
    /\ pc = "idle"
    /\ \E b \in Batches : documents' = b
    /\ pc' = "loaded"
    /\ UNCHANGED <<cfgvars, chunks, cuts, fs, sessionvars, ret>>

\* DocumentProcessor.split_documents
SplitDocuments ==
    /\ pc = "loaded"
    /\ chunks' = split_documents(documents, chunk_size, chunk_overlap)
    /\ cuts' = DocumentCuts(documents, chunk_size, chunk_overlap)
    /\ pc' = "split"
    /\ UNCHANGED <<cfgvars, documents, fs, sessionvars, ret>>

NextSplit == TakeDocuments \/ SplitDocuments

SpecSplit == InitSplit /\ [][NextSplit]_vars

\* C8 as stated: every chunk is at most chunk_size characters long and
\* carries its document's metadata, and every two consecutive chunks of a
\* document, the final chunk apart, overlap by exactly chunk_overlap
\* characters.
SameDocument(j, k) == k <= Len(cuts) /\ cuts[j].doc = cuts[k].doc

\* the number of characters chunk j shares with the chunk after it
Overlap(j) ==
    IF cuts[j].hi >= cuts[j + 1].lo THEN cuts[j].hi - cuts[j + 1].lo + 1 ELSE 0

ChunkWithinSize(j) ==
    /\ Len(chunks[j].page_content) <= chunk_size
    /\ Len(chunks[j].page_content) = cuts[j].hi - cuts[j].lo + 1
    /\ chunks[j].page_content
         = SubSeq(documents[cuts[j].doc].page_content, cuts[j].lo, cuts[j].hi)
    /\ chunks[j].metadata = documents[cuts[j].doc].metadata

Questions == {<<"q1">>, <<"q2">>}

Metadatas == {[source |-> <<"A">>], [source |-> <<"B">>], [title |-> <<"t">>]}

\* an index over n chunks of different text, with the given metadata
IndexOver(mds) ==
    LET docs == [i \in 1..Len(mds) |->
                    [page_content |-> [j \in 1..i |-> "a"], metadata |-> mds[i]]]
    IN Index([i \in 1..Len(docs) |-> Embed(docs[i].page_content)], docs)

QAIndexes == {IndexOver(mds) : mds \in SeqsUpTo(Metadatas, MaxChunks) \ {<<>>}}

InitQA ==
    /\ Configured
    /\ NoSplitting
    /\ fs = [p \in Paths |-> Absent]
    /\ vectorstore \in QAIndexes
    /\ qa_chain = QAChain(vectorstore)
    /\ urls_processed = TRUE
    /\ chat_history = <<>>
    /\ answered_on = <<>>
    /\ ret = Started

\* a caller calls qa_chain.ask_with_sources(question)
AskWithSources ==
    /\ ret = Started
    /\ \E q \in Questions, first \in RetrieverInvoke(qa_chain),
          second \in RetrieverInvoke(qa_chain), llm_ok \in BOOLEAN :
          LET r == ask_with_sources(qa_chain, q, first, second, llm_ok)
          IN ret' = [op |-> "ask_with_sources", question |-> q, raised |-> r.raised,
                     answer |-> r.answer, sources |-> r.sources,
                     retrievals |-> r.retrievals, docs |-> r.docs,
                     context_docs |-> r.context_docs]
    /\ UNCHANGED <<cfgvars, splitvars, fs, sessionvars>>

\* the caller takes the result
TakeAnswer ==
    /\ ret # Started
    /\ ret' = Started
    /\ UNCHANGED <<cfgvars, splitvars, fs, sessionvars>>

NextQA == AskWithSources \/ TakeAnswer

SpecQA == InitQA /\ [][NextQA]_vars

Answered == ret.op = "ask_with_sources" /\ ~ret.raised

\* C2 as stated: one call of ask_with_sources runs the retriever once, and
\* the chunks the sources are taken from are the chunks whose text was
\* formatted into the model's context.
C2_SingleRetrieval ==
    Answered =>
        /\ ret.retrievals = 1
        /\ ret.docs = ret.context_docs
        /\ ret.answer.context = format_docs(ret.docs)

\* the lines of a text: text.split("\n")
RECURSIVE Lines(_, _)
Lines(text, line) ==
    IF text = <<>> THEN <<line>>
    ELSE IF Head(text) = "\n" THEN <<line>> \o Lines(Tail(text), <<>>)
    ELSE Lines(Tail(text), Append(line, Head(text)))

HasSource(doc) == "source" \in DOMAIN doc.metadata

SourcesOf(docs) == {docs[i].metadata.source : i \in {j \in 1..Len(docs) : HasSource(docs[j])}}

FirstOccurrence(docs, src) ==
    CHOOSE i \in 1..Len(docs) :
        /\ HasSource(docs[i]) /\ docs[i].metadata.source = src
        /\ \A j \in 1..(i - 1) : ~(HasSource(docs[j]) /\ docs[j].metadata.source = src)

\* C3: when some retrieved chunk carries a source, the sources returned
\* name every source of a retrieved chunk once and nothing else, in the
\* order in which the sources first occur among the retrieved chunks.
C3_SourcesDistinctInOrder ==
    (Answered /\ SourcesOf(ret.docs) # {}) =>
        LET out == Lines(ret.sources, <<>>)
        IN /\ {out[i] : i \in 1..Len(out)} = SourcesOf(ret.docs)
           /\ \A i, j \in 1..Len(out) :
                i < j => /\ out[i] # out[j]
                         /\ FirstOccurrence(ret.docs, out[i]) < FirstOccurrence(ret.docs, out[j])

\* chunks with sources A, B, A are retrieved: A and B are reported
C3_Witness ==
    /\ Answered
    /\ Len(ret.docs) = 3
    /\ HasSource(ret.docs[1]) /\ ret.docs[1].metadata.source = <<"A">>
    /\ HasSource(ret.docs[2]) /\ ret.docs[2].metadata.source = <<"B">>
    /\ HasSource(ret.docs[3]) /\ ret.docs[3].metadata.source = <<"A">>
    /\ ret.sources = <<"A", "\n", "B">>

PathArguments == {NonePath} \cup Paths

Stores == {IndexOf(<< <<"u1">> >>), IndexOf(<< <<"u2">> >>), IndexOf(<< <<"u1">>, <<"u2">> >>)}

Folder(file_path) == IF file_path = NonePath THEN IndexFolder ELSE file_path

InitDP ==
    /\ Configured
    /\ NoSplitting
    /\ NewSession
    /\ fs \in [Paths -> EarlierEntries]
    /\ ret = Started

\* Each call is made by a caller that has taken the result of the one before.
IndexExists ==
    /\ ret = Started
    /\ \E file_path \in PathArguments :
        ret' = [op |-> "index_exists", file_path |-> file_path,
                result |-> index_exists(fs, file_path)]
    /\ UNCHANGED <<cfgvars, splitvars, fs, sessionvars>>

LoadVectorstore ==
    /\ ret = Started
    /\ \E file_path \in PathArguments :
        LET r == load_vectorstore(fs, file_path)
        IN ret' = [op |-> "load_vectorstore", file_path |-> file_path,
                   raised |-> r.raised, value |-> r.value,
                   embeddings |-> r.embeddings, loader |-> r.loader]
    /\ UNCHANGED <<cfgvars, splitvars, fs, sessionvars>>

SaveVectorstore ==
    /\ ret = Started
    /\ \E store \in Stores, file_path \in PathArguments, fail \in SaveFailures :
        LET r == save_vectorstore(fs, store, file_path, fail)
        IN /\ fs' = r.fs
           /\ ret' = [op |-> "save_vectorstore", file_path |-> file_path,
                      raised |-> r.raised, value |-> store]
    /\ UNCHANGED <<cfgvars, splitvars, sessionvars>>

ProcessUrlsReturns(r, save_index) ==
    /\ fs' = r.fs
    /\ ret' = [op |-> "process_urls", save_index |-> save_index,
               raised |-> r.raised, value |-> r.value, steps |-> r.steps,
               num_documents |-> r.num_documents, num_chunks |-> r.num_chunks]

ProcessUrls ==
    /\ ret = Started
    /\ \E urls \in {<<>>, << <<"u1">> >>, << <<"u1">>, <<"u2">> >>},
          save_index \in BOOLEAN :
          \E w \in Worlds(urls) :
            ProcessUrlsReturns(process_urls(fs, urls, save_index, w, chunk_size,
                                            chunk_overlap), save_index)
    /\ UNCHANGED <<cfgvars, splitvars, sessionvars>>

\* the caller takes the result
TakeResult ==
    /\ ret # Started
    /\ ret' = Started
    /\ UNCHANGED <<cfgvars, splitvars, fs, sessionvars>>

NextDP == IndexExists \/ LoadVectorstore \/ SaveVectorstore \/ ProcessUrls \/ TakeResult

SpecDP == InitDP /\ [][NextDP]_vars

Present(file) == file.state # "missing"

\* C1 as stated: index_exists reports an index exactly when both the
\* vector data file and the metadata store file are at the path.
C1_BothArtifacts ==
    ret.op = "index_exists" =>
        LET entry == fs[Folder(ret.file_path)]
        IN ret.result
             <=> (entry.kind = "dir" /\ Present(entry.faiss) /\ Present(entry.pkl))

Complete(entry) ==
    entry.kind = "dir" /\ entry.faiss.state = "ok" /\ entry.pkl.state = "ok"

\* C5 as stated: load_vectorstore returns the absent result, and touches
\* neither the embeddings nor the loader, when nothing is at the path;
\* returns the saved index when a complete index is there; and raises for
\* anything else that is at the path.
C5_ThreeOutcomes ==
    ret.op = "load_vectorstore" =>
        LET entry == fs[Folder(ret.file_path)]
        IN IF entry.kind = "absent"
           THEN ~ret.raised /\ ret.value = NoIndex /\ ~ret.embeddings /\ ~ret.loader
           ELSE IF Complete(entry)
           THEN ~ret.raised /\ ret.value = Index(entry.faiss.data, entry.pkl.data)
           ELSE ret.raised

\* C6: once save_vectorstore has returned, index_exists reports the index
\* at the same path argument, load_vectorstore of that argument returns
\* the index that was saved, which answers every query as the saved one
\* does, and the folder holds the two files of that index and nothing of
\* an earlier one; without a path argument the folder is the default one.
C6_RoundTrip ==
    (ret.op = "save_vectorstore" /\ ~ret.raised) =>
        LET loaded == load_vectorstore(fs, ret.file_path)
        IN /\ index_exists(fs, ret.file_path)
           /\ ~loaded.raised
           /\ loaded.value = ret.value
           /\ RetrieverInvoke(QAChain(loaded.value)) = RetrieverInvoke(QAChain(ret.value))
           /\ fs[Folder(ret.file_path)] = Dir(Stored(ret.value.vec), Stored(ret.value.docs))
           /\ ret.file_path = NonePath =>
                  fs[IndexFolder] = Dir(Stored(ret.value.vec), Stored(ret.value.docs))

\* an index saved without a path argument, over what an earlier run left
C6_Witness ==
    /\ ret.op = "save_vectorstore" /\ ~ret.raised
    /\ ret.file_path = NonePath
    /\ ret.value = IndexOf(<< <<"u1">>, <<"u2">> >>)
    /\ load_vectorstore(fs, NonePath).value = ret.value
    /\ fs[FAISS_INDEX_PATH] = Dir(Stored(IndexOf(<< <<"u2">> >>).vec), Corrupt)

PipelineSteps == <<"load_urls", "split_documents", "create_vectorstore", "save_vectorstore">>

\* C7 as stated: process_urls runs its steps in order and stops at the
\* first that fails; a failed call returns no index and leaves storage as
\* it was; a call with save_index false writes nothing.
C7_AllOrNothing ==
    [][(ret = Started /\ ret'.op = "process_urls") =>
          /\ \E n \in 1..4 : ret'.steps = SubSeq(PipelineSteps, 1, n)
          /\ ret'.raised => (ret'.value = NoIndex /\ fs' = fs)
          /\ ~ret'.save_index => fs' = fs]_vars


(***************************************************************************)
(* Spec: one Streamlit session of app.py.  Every interaction reruns the    *)
(* script with one widget set: the Process URLs button, the Load Existing  *)
(* Index button, or a question in the chat input.                          *)
(***************************************************************************)

\* str.strip() of one line of the text area
RECURSIVE StripLine(_)
StripLine(line) ==
    IF line = <<>> THEN line
    ELSE IF Head(line) = " " THEN StripLine(Tail(line))
    ELSE IF line[Len(line)] = " " THEN StripLine(SubSeq(line, 1, Len(line) - 1))
    ELSE line

\* urls_input.strip() is not empty: some line holds more than blanks
NonBlank(urls_input) == \E i \in 1..Len(urls_input) : StripLine(urls_input[i]) # <<>>

\* [url.strip() for url in urls_input.split('\n') if url.strip()]
RECURSIVE ParseUrls(_)
ParseUrls(urls_input) ==
    IF urls_input = <<>> THEN <<>>
    ELSE IF StripLine(Head(urls_input)) # <<>>
         THEN <<StripLine(Head(urls_input))>> \o ParseUrls(Tail(urls_input))
         ELSE ParseUrls(Tail(urls_input))

\* what the user may have typed into the text area, line by line
UrlInputs ==
    { <<>>,
      << <<" ">>, <<>> >>,
      << <<"u1">> >>,
      << <<" ", "u2", " ">> >>,
      << <<>>, <<"u1">>, <<" ">> >> }

\* a variant of Install that keeps a chain the session already has; C9
\* must tell it from Install
InstallKeepingChain(store) ==
    /\ vectorstore' = store
    /\ qa_chain' = IF qa_chain = NoChain THEN QAChain(store) ELSE qa_chain
    /\ urls_processed' = TRUE
    /\ chat_history' = <<>>
    /\ answered_on' = <<>>

\* a variant of Install that keeps the chat history; C10 must tell it
\* from Install
InstallKeepingHistory(store) ==
    /\ vectorstore' = store
    /\ qa_chain' = QAChain(store)
    /\ urls_processed' = TRUE
    /\ UNCHANGED <<chat_history, answered_on>>

\* both handlers, once they hold an index: store it, build the chain over
\* it, mark the session ready and empty the chat history
Install(store) ==
    /\ vectorstore' = store
    /\ qa_chain' = QAChain(store)
    /\ urls_processed' = TRUE
    /\ chat_history' = <<>>
    /\ answered_on' = <<>>

Init ==
    /\ Configured
    /\ NoSplitting
    /\ NewSession
    /\ fs \in {[p \in Paths |-> IF p = IndexFolder THEN e ELSE Absent] : e \in EarlierEntries}
    /\ ret = Started

\* the try block of the Process URLs handler, for the urls parsed
ProcessRequest(r) ==
    /\ fs' = r.fs
    /\ IF r.raised
       THEN /\ ret' = [op |-> "process", outcome |-> "error"]
            /\ UNCHANGED sessionvars
       ELSE /\ ret' = [op |-> "process", outcome |-> "success"]
            /\ Install(r.value)

ProcessInput(urls_input, urls) ==
    IF ~NonBlank(urls_input) \/ Len(urls) = 0
    THEN /\ ret' = [op |-> "process", outcome |-> "warning"]
         /\ UNCHANGED <<fs, sessionvars>>
    ELSE \E w \in Worlds(urls) :
            ProcessRequest(Pipeline(fs, urls, TRUE, w, chunk_size, chunk_overlap))

\* if process_button
ProcessURLs ==
    /\ \E urls_input \in UrlInputs : ProcessInput(urls_input, ParseUrls(urls_input))
    /\ UNCHANGED <<cfgvars, splitvars>>

LoadResult(r) ==
    IF r.raised \/ r.value = NoIndex
    THEN /\ ret' = [op |-> "load", outcome |-> "error"]
         /\ UNCHANGED sessionvars
    ELSE /\ ret' = [op |-> "load", outcome |-> "success"]
         /\ Install(r.value)

\* if load_button
LoadExistingIndex ==
    /\ IF index_exists(fs, NonePath)
       THEN LoadResult(load_vectorstore(fs, NonePath))
       ELSE /\ ret' = [op |-> "load", outcome |-> "warning"]
            /\ UNCHANGED sessionvars
    /\ UNCHANGED <<cfgvars, splitvars, fs>>

UserMessage(question) == [role |-> "user", content |-> [text |-> question]]

AnswerMessage(answer, sources) ==
    [role |-> "assistant", content |-> [answer |-> answer], sources |-> sources]

ErrorMessage == [role |-> "assistant", content |-> [error |-> "Error generating answer"]]

\* if st.session_state.urls_processed: ... if question
AskQuestion ==
    /\ urls_processed
    /\ Len(chat_history) < 2 * MaxTurns
    /\ \E question \in Questions, first \in RetrieverInvoke(qa_chain),
          second \in RetrieverInvoke(qa_chain), llm_ok \in BOOLEAN :
        LET r == ask_with_sources(qa_chain, question, first, second, llm_ok)
            reply == IF r.raised THEN ErrorMessage ELSE AnswerMessage(r.answer, r.sources)
        IN /\ chat_history' = chat_history \o <<UserMessage(question), reply>>
           /\ answered_on' = answered_on \o <<qa_chain.vectorstore, qa_chain.vectorstore>>
           /\ ret' = [op |-> "ask",
                      outcome |-> IF r.raised THEN "error" ELSE "success"]
    /\ UNCHANGED <<cfgvars, splitvars, fs, vectorstore, qa_chain, urls_processed>>

Next == ProcessURLs \/ LoadExistingIndex \/ AskQuestion

Spec == Init /\ [][Next]_vars


SessionReady ==
    /\ urls_processed <=> (vectorstore # NoIndex /\ qa_chain # NoChain)
    /\ urls_processed => qa_chain.vectorstore = vectorstore

ReadinessStep ==
    /\ urls_processed => urls_processed'
    /\ ret'.op = "ask" => urls_processed
    /\ (ret'.op \in {"process", "load"} /\ ret'.outcome # "success")
          => UNCHANGED <<vectorstore, qa_chain, urls_processed>>
    /\ (ret'.op \in {"process", "load"} /\ ret'.outcome = "success")
          => urls_processed' /\ qa_chain'.vectorstore = vectorstore'

\* C9: urls_processed holds exactly when the session has both a
\* vectorstore and a qa_chain, the qa_chain is the one built over the
\* session's vectorstore, questions are asked only of a ready session, a
\* Process or Load that ends in a warning or an error changes none of the
\* three, and a ready session stays ready.
C9_SessionReadiness == []SessionReady /\ [][ReadinessStep]_vars

\* a ready session with a conversation, after a Process URLs that failed
C9_Witness ==
    /\ urls_processed
    /\ qa_chain = QAChain(vectorstore)
    /\ Len(chat_history) = 2
    /\ ret = [op |-> "process", outcome |-> "error"]

IsUserMessage(m) == m.role = "user" /\ DOMAIN m = {"role", "content"}

IsAnswerMessage(m) ==
    /\ m.role = "assistant"
    /\ DOMAIN m = {"role", "content", "sources"}
    /\ DOMAIN m.content = {"answer"}

IsErrorMessage(m) == m = ErrorMessage /\ "sources" \notin DOMAIN m

HistoryOfPairs ==
    /\ Len(chat_history) % 2 = 0
    /\ Len(answered_on) = Len(chat_history)
    /\ \A i \in 1..Len(chat_history) :
          /\ IF i % 2 = 1
             THEN IsUserMessage(chat_history[i])
             ELSE IsAnswerMessage(chat_history[i]) \/ IsErrorMessage(chat_history[i])
          /\ answered_on[i] = vectorstore

HistoryStep ==
    /\ ret'.op = "ask" =>
          LET n == Len(chat_history)
          IN /\ Len(chat_history') = n + 2
             /\ SubSeq(chat_history', 1, n) = chat_history
             /\ \E q \in Questions : chat_history'[n + 1] = UserMessage(q)
             /\ IF ret'.outcome = "success"
                THEN IsAnswerMessage(chat_history'[n + 2])
                ELSE IsErrorMessage(chat_history'[n + 2])
    /\ ret'.op \in {"process", "load"} =>
          IF ret'.outcome = "success"
          THEN chat_history' = <<>> /\ vectorstore' # NoIndex
          ELSE chat_history' = chat_history /\ vectorstore' = vectorstore

\* C10: the chat history is a sequence of user/assistant pairs, all of
\* them answered on the session's current index; a question appends its
\* user message and then one assistant message, the answer with sources
\* or an error message without; a Process or Load that installs an index
\* empties the history and one that does not leaves it as it was.
C10_ChatHistory == []HistoryOfPairs /\ [][HistoryStep]_vars

\* two questions on one index, the first answered, the second failed
C10_Witness ==
    /\ Len(chat_history) = 4
    /\ IsAnswerMessage(chat_history[2])
    /\ IsErrorMessage(chat_history[4])
    /\ answered_on[4] = vectorstore
    /\ ret = [op |-> "ask", outcome |-> "error"]
=============================================================================
